---- MODULE Spec2Model ----
(* Model of list_models.py: fetch-with-fallback model listing for two         *)
(* providers (Gemini, OpenAI).                                                *)
(*                                                                            *)
(* Python str values are modelled as sequences of Unicode code points, so     *)
(* that splitting on '/' and the ordering used by sorted() are computed and   *)
(* not assumed.  None (and any other non-str value) is the sequence <<-1>>.   *)
EXTENDS Integers, Sequences, FiniteSets

VARIABLES env, mock, genai_api_key, ret, prev, held, pc, trace

vars == <<env, mock, genai_api_key, ret, prev, held, pc, trace>>

-----------------------------------------------------------------------------
(* Bounds *)

\* longest mocked remote response (number of model objects returned)
MaxResp ==
  2

-----------------------------------------------------------------------------
(* Values *)

\* Python None / a value that is not a str
None ==
  <<-1>>

\* code point of the path separator '/'
SLASH ==
  47

IsStr(x) ==
  x /= None

\* no exception
NoExc ==
  "NoExc"

\* "models/gemini-2.0-flash"
RAW_MODELS_FLASH ==
  <<109,111,100,101,108,115,47,103,101,109,105,110,105,45,50,46,48,45,102,108,97,115,104>>

\* "tunedModels/gemini-2.0-flash"
RAW_TUNED_FLASH ==
  <<116,117,110,101,100,77,111,100,101,108,115,47,103,101,109,105,110,105,45,50,46,48,45,102,108,97,115,104>>

\* "deepseek-ai/deepseek-r1"
RAW_DEEPSEEK ==
  <<100,101,101,112,115,101,101,107,45,97,105,47,100,101,101,112,115,101,101,107,45,114,49>>

\* "GPT-4"
RAW_GPT4_UPPER ==
  <<71,80,84,45,52>>

\* "gemini-2.0-flash"
NAME_FLASH ==
  <<103,101,109,105,110,105,45,50,46,48,45,102,108,97,115,104>>

\* "deepseek-r1"
NAME_DEEPSEEK_R1 ==
  <<100,101,101,112,115,101,101,107,45,114,49>>

\* a non-empty credential, "k"
KEY_A ==
  <<107>>

\* an item a caller appends to a list it was given, "x"
CALLER_ITEM ==
  <<120>>

\* the empty str ""
EMPTY ==
  <<>>

\* the list literal bound to default_gemini_models
DefaultGeminiLiteral ==
  <<
    \* "gemini-2.5-pro-exp-03-25"
    <<103,101,109,105,110,105,45,50,46,53,45,112,114,111,45,101,120,112,45,48,51,45,50,53>>,
    \* "gemini-2.0-flash"
    <<103,101,109,105,110,105,45,50,46,48,45,102,108,97,115,104>>,
    \* "gemini-2.0-flash-lite"
    <<103,101,109,105,110,105,45,50,46,48,45,102,108,97,115,104,45,108,105,116,101>>,
    \* "gemini-2.0-flash-exp-image-generation"
    <<103,101,109,105,110,105,45,50,46,48,45,102,108,97,115,104,45,101,120,112,45,105,109,97,103,101,45,103,101,110,101,114,97,116,105,111,110>>,
    \* "gemini-1.5-pro"
    <<103,101,109,105,110,105,45,49,46,53,45,112,114,111>>,
    \* "gemini-1.5-flash"
    <<103,101,109,105,110,105,45,49,46,53,45,102,108,97,115,104>>,
    \* "gemini-1.5-flash-8b"
    <<103,101,109,105,110,105,45,49,46,53,45,102,108,97,115,104,45,56,98>>,
    \* "imagen-3.0-generate-002"
    <<105,109,97,103,101,110,45,51,46,48,45,103,101,110,101,114,97,116,101,45,48,48,50>>
  >>

\* the list literal bound to default_openai_models
DefaultOpenAILiteral ==
  <<
    \* "gpt-4o-mini"
    <<103,112,116,45,52,111,45,109,105,110,105>>,
    \* "gpt-4o-mini-2024-07-18"
    <<103,112,116,45,52,111,45,109,105,110,105,45,50,48,50,52,45,48,55,45,49,56>>,
    \* "gpt-3.5-turbo"
    <<103,112,116,45,51,46,53,45,116,117,114,98,111>>,
    \* "gpt-3.5-turbo-0125"
    <<103,112,116,45,51,46,53,45,116,117,114,98,111,45,48,49,50,53>>,
    \* "gpt-3.5-turbo-16k"
    <<103,112,116,45,51,46,53,45,116,117,114,98,111,45,49,54,107>>,
    \* "o1-preview"
    <<111,49,45,112,114,101,118,105,101,119>>,
    \* "o1-preview-2024-09-12"
    <<111,49,45,112,114,101,118,105,101,119,45,50,48,50,52,45,48,57,45,49,50>>,
    \* "o1-mini"
    <<111,49,45,109,105,110,105>>,
    \* "o1-mini-2024-09-12"
    <<111,49,45,109,105,110,105,45,50,48,50,52,45,48,57,45,49,50>>,
    \* "deepseek-ai/deepseek-r1"
    <<100,101,101,112,115,101,101,107,45,97,105,47,100,101,101,112,115,101,101,107,45,114,49>>
  >>

\* one list object shared by all invocations and by the callers that were
\* handed it
default_gemini_models_shared ==
  IF held.gemini.obj = "default" THEN held.gemini.list ELSE DefaultGeminiLiteral

\* the local default_gemini_models: a new list object, built from the
\* literal by every invocation
default_gemini_models ==
  DefaultGeminiLiteral

\* the local default_openai_models: a new list object, built from the
\* literal by every invocation
default_openai_models ==
  DefaultOpenAILiteral

-----------------------------------------------------------------------------
(* Pure helpers: what the list and str operations of the code compute *)

Range(s) ==
  {s[i] : i \in 1..Len(s)}

\* the element of a one-element set; { e(x) : x \in {v} } evaluates v once
\* and names the value x, as an assignment to a local does
Only(S) ==
  CHOOSE x \in S : TRUE

MaxOf(S) ==
  CHOOSE x \in S : \A y \in S : y <= x

\* truth value of a credential in `if not gemini_api_key`: None and ""
\* are falsy, every other str is truthy
Truthy_not_none(key) ==
  key /= None

Truthy(key) ==
  key /= None /\ key /= EMPTY

\* name.split('/')[0]
split_first(name) ==
  LET idxs == {i \in 1..Len(name) : name[i] = SLASH}
  IN  IF idxs = {} THEN name
      ELSE SubSeq(name, 1, (CHOOSE x \in idxs : \A y \in idxs : x <= y) - 1)

\* name.split('/')[-1]: the part after the last '/', the whole name when
\* it has no '/'
split_last(name) ==
  LET idxs == {i \in 1..Len(name) : name[i] = SLASH}
  IN  IF idxs = {} THEN name
      ELSE SubSeq(name, MaxOf(idxs) + 1, Len(name))

\* a < b for two str values: decided by the first code point that differs;
\* when none differs the shorter one (a proper prefix) is smaller
StrLess(a, b) ==
  LET m    == IF Len(a) < Len(b) THEN Len(a) ELSE Len(b)
      diff == {i \in 1..m : a[i] /= b[i]}
  IN  IF diff = {} THEN Len(a) < Len(b)
      ELSE LET i == CHOOSE x \in diff : \A y \in diff : x <= y
           IN  a[i] < b[i]

sorted_missing(s) ==
  s

\* number of elements of s that sort before s[i]: the smaller ones and the
\* equal ones to its left
Before(s, i) ==
  Cardinality({j \in 1..Len(s) :
                 StrLess(s[j], s[i]) \/ (s[j] = s[i] /\ j < i)})

\* sorted(list) on a list of str: a new list, ascending, stable
sorted(list) ==
  Only({ Only({ [k \in 1..Len(s) |-> s[CHOOSE i \in 1..Len(s) : rank[i] = k]] :
                rank \in {[i \in 1..Len(s) |-> 1 + Before(s, i)]} }) :
         s \in {list} })

\* sorted() raises TypeError when it has to compare a non-str with a str
SortRaises(s) ==
  Len(s) >= 2 /\ \E i \in 1..Len(s) : ~IsStr(s[i])

Merge_skip_defaults(names, defaults) ==
  names

\* the entries of defaults the loop appends: defaults[k] is appended when it
\* is not among the given names and was not appended already for an
\* earlier, equal entry
Appended(names, defaults) ==
  Only({ [i \in 1..Cardinality(kept) |->
            defaults[CHOOSE k \in kept : Cardinality({j \in kept : j <= k}) = i]] :
         kept \in {{k \in 1..Len(defaults) :
                      /\ defaults[k] \notin Range(names)
                      /\ \A j \in 1..(k - 1) : defaults[j] /= defaults[k]}} })

\* for model in defaults: if model not in names: names.append(model)
Merge(model_names, default_models) ==
  Only({ p[1] \o Appended(p[1], p[2]) : p \in {<<model_names, default_models>>} })

Caught_only_connection(exc) ==
  exc = "ConnectionError"

\* `except Exception as e`: every class the remote call and the list
\* handling raise derives from Exception
Caught(exc) ==
  exc \in {"ConnectionError", "PermissionDenied", "AttributeError", "TypeError"}

Fallback_partial(defaults, partial) ==
  partial \o defaults

\* the except branch: `return default_..._models`; the names read so far
\* are dropped
Fallback(defaults, partial) ==
  defaults

NoKeyResult_sorted(defaults) ==
  sorted(defaults)

\* the missing-credential branch: `return default_..._models`
NoKeyResult(defaults) ==
  defaults

-----------------------------------------------------------------------------
(* Observable events: lines printed and remote calls made *)

Ev(kind, tag, n, text) ==
  [kind |-> kind, tag |-> tag, n |-> n, text |-> text]

Printed(tag) ==
  Ev("print", tag, 0, <<>>)

RemoteCall(tag) ==
  Ev("remote", tag, 0, <<>>)

-----------------------------------------------------------------------------
(* The remote endpoints.  A mocked endpoint is a record                      *)
(*   cfg   : exception raised by the client set-up, or NoExc                 *)
(*   list  : exception raised by the listing call, or NoExc                  *)
(*   items : the raw identifiers of the objects the listing yields           *)
(*   iter  : exception raised while reading the objects, after `items`       *)
(*           have been read, or NoExc                                        *)

Remote(cfg, list, items, iter) ==
  [cfg |-> cfg, list |-> list, items |-> items, iter |-> iter]

\* what one invocation did: the value returned (or the exception that
\* left the function), which list object was returned, the exception
\* raised inside the try block and where, the local name list at that
\* point, the fetched names before the merge, and the events
Outcome(fn, result, obj, raised, exc, stage, names, fetched, events, configured) ==
  [fn |-> fn, result |-> result, obj |-> obj, raised |-> raised, exc |-> exc,
   stage |-> stage, names |-> names, fetched |-> fetched, events |-> events,
   configured |-> configured]

\* get_api_keys(): os.getenv of both variables, a warning for each falsy one
get_api_keys(e) ==
  [keys   |-> <<e.GEMINI_API_KEY, e.OPENAI_API_KEY>>,
   events |-> (IF ~Truthy(e.GEMINI_API_KEY)
               THEN <<Printed("warn_GEMINI_API_KEY")>> ELSE <<>>)
              \o
              (IF ~Truthy(e.OPENAI_API_KEY)
               THEN <<Printed("warn_OPENAI_API_KEY")>> ELSE <<>>)]

\* lines 54-60 of get_gemini_models: fetched is the name list of line 53,
\* merged the same list after the loop of lines 57-59
GeminiMergeSort(fetched, merged) ==
  LET evs == <<RemoteCall("gemini"),
               Ev("print", "gemini_fetched", Len(fetched), <<>>)>>
  IN  IF SortRaises(merged)
      THEN [exc |-> "TypeError", stage |-> "sort", names |-> merged,
            fetched |-> fetched, value |-> <<>>, events |-> evs,
            configured |-> TRUE]
      ELSE [exc |-> NoExc, stage |-> "return", names |-> merged,
            fetched |-> fetched, value |-> sorted(merged),
            events |-> evs, configured |-> TRUE]

\* the try block of get_gemini_models, lines 49-60
GeminiTry(r) ==
  IF r.cfg /= NoExc
  THEN [exc |-> r.cfg, stage |-> "configure", names |-> <<>>, fetched |-> <<>>,
        value |-> <<>>, events |-> <<>>, configured |-> FALSE]
  ELSE IF r.list /= NoExc
  THEN [exc |-> r.list, stage |-> "list", names |-> <<>>, fetched |-> <<>>,
        value |-> <<>>, events |-> <<RemoteCall("gemini")>>, configured |-> TRUE]
  ELSE IF r.iter /= NoExc
  THEN [exc |-> r.iter, stage |-> "iterate", names |-> r.items, fetched |-> <<>>,
        value |-> <<>>, events |-> <<RemoteCall("gemini")>>, configured |-> TRUE]
  ELSE IF \E i \in 1..Len(r.items) : ~IsStr(r.items[i])
  THEN [exc |-> "AttributeError", stage |-> "normalize", names |-> r.items,
        fetched |-> <<>>, value |-> <<>>,
        events |-> <<RemoteCall("gemini")>>, configured |-> TRUE]
  ELSE Only({ Only({ GeminiMergeSort(model_names, merged) :
                     merged \in {Merge(model_names, default_gemini_models)} }) :
              model_names \in {[i \in 1..Len(r.items) |-> split_last(r.items[i])]} })

\* how get_gemini_models() ends once the try block has run with outcome t:
\* the sorted list when nothing was raised, the default list from the
\* except branch (lines 61-64) otherwise; k is what get_api_keys() gave
GeminiHandle(fn, k, t) ==
  IF t.exc = NoExc
  THEN Outcome(fn, t.value, "sorted", NoExc, NoExc, t.stage,
               t.names, t.fetched, k.events \o t.events, t.configured)
  ELSE IF Caught(t.exc)
  THEN Outcome(fn, Fallback(default_gemini_models, t.names),
               "default", NoExc, t.exc, t.stage, t.names, t.fetched,
               k.events \o t.events
                 \o <<Printed("gemini_error"), Printed("gemini_using_default")>>,
               t.configured)
  ELSE Outcome(fn, <<>>, "none", t.exc, t.exc, t.stage, t.names,
               t.fetched, k.events \o t.events, t.configured)

\* get_gemini_models(), lines 26-64, in environment e against endpoint r
get_gemini_models(e, r) ==
  LET k  == get_api_keys(e)
      gemini_api_key == k.keys[1]
      fn == "get_gemini_models"
  IN  IF ~Truthy(gemini_api_key)
      THEN Outcome(fn, NoKeyResult(default_gemini_models), "default", NoExc,
                   NoExc, "nokey", <<>>, <<>>,
                   k.events \o <<Printed("gemini_key_missing")>>, FALSE)
      ELSE Only({ GeminiHandle(fn, k, t) : t \in {GeminiTry(r)} })

\* lines 94-100 of get_openai_models: fetched is the id list of line 93,
\* merged the same list after the loop of lines 97-99
OpenAIMergeSort(fetched, merged) ==
  LET evs == <<RemoteCall("openai"),
               Ev("print", "openai_fetched", Len(fetched), <<>>)>>
  IN  IF SortRaises(merged)
      THEN [exc |-> "TypeError", stage |-> "sort", names |-> merged,
            fetched |-> fetched, value |-> <<>>, events |-> evs]
      ELSE [exc |-> NoExc, stage |-> "return", names |-> merged,
            fetched |-> fetched, value |-> sorted(merged),
            events |-> evs]

\* the try block of get_openai_models, lines 91-100
OpenAITry(r) ==
  IF r.cfg /= NoExc
  THEN [exc |-> r.cfg, stage |-> "configure", names |-> <<>>, fetched |-> <<>>,
        value |-> <<>>, events |-> <<>>]
  ELSE IF r.list /= NoExc
  THEN [exc |-> r.list, stage |-> "list", names |-> <<>>, fetched |-> <<>>,
        value |-> <<>>, events |-> <<RemoteCall("openai")>>]
  ELSE IF r.iter /= NoExc
  THEN [exc |-> r.iter, stage |-> "iterate", names |-> r.items, fetched |-> <<>>,
        value |-> <<>>, events |-> <<RemoteCall("openai")>>]
  ELSE Only({ Only({ OpenAIMergeSort(model_ids, merged) :
                     merged \in {Merge(model_ids, default_openai_models)} }) :
              model_ids \in {r.items} })

\* how get_openai_models() ends once the try block has run with outcome t:
\* the sorted list when nothing was raised, the default list from the
\* except branch (lines 101-104) otherwise; k is what get_api_keys() gave
OpenAIHandle(fn, k, t) ==
  IF t.exc = NoExc
  THEN Outcome(fn, t.value, "sorted", NoExc, NoExc, t.stage,
               t.names, t.fetched, k.events \o t.events, FALSE)
  ELSE IF Caught(t.exc)
  THEN Outcome(fn, Fallback(default_openai_models, t.names),
               "default", NoExc, t.exc, t.stage, t.names, t.fetched,
               k.events \o t.events
                 \o <<Printed("openai_error"), Printed("openai_using_default")>>,
               FALSE)
  ELSE Outcome(fn, <<>>, "none", t.exc, t.exc, t.stage, t.names,
               t.fetched, k.events \o t.events, FALSE)

\* get_openai_models(), lines 66-104, in environment e against endpoint r
get_openai_models(e, r) ==
  LET k  == get_api_keys(e)
      openai_api_key == k.keys[2]
      fn == "get_openai_models"
  IN  IF ~Truthy(openai_api_key)
      THEN Outcome(fn, NoKeyResult(default_openai_models), "default", NoExc,
                   NoExc, "nokey", <<>>, <<>>,
                   k.events \o <<Printed("openai_key_missing")>>, FALSE)
      ELSE Only({ OpenAIHandle(fn, k, t) : t \in {OpenAITry(r)} })

-----------------------------------------------------------------------------
(* State                                                                     *)
(*   env           : os.environ, the two credential variables                *)
(*   mock          : the behaviour of the two remote endpoints               *)
(*   genai_api_key : the key the Gemini SDK was last configured with         *)
(*                   (genai.configure sets it process-wide)                  *)
(*   ret           : what the most recent invocation did                     *)
(*   prev          : result of the invocation before it                      *)
(*   held          : the lists the caller was handed (gemini_models,         *)
(*                   openai_models), which the caller may modify             *)
(*   pc            : position of the script body; "lib" when the functions   *)
(*                   are called by an importing program                      *)
(*   trace         : lines printed and remote calls made                     *)

KeyValues ==
  {None, EMPTY, KEY_A}

Envs ==
  [GEMINI_API_KEY : KeyValues, OPENAI_API_KEY : KeyValues]

RawIds ==
  {RAW_MODELS_FLASH, RAW_TUNED_FLASH, RAW_DEEPSEEK, RAW_GPT4_UPPER, None}

MainRawIds ==
  {RAW_MODELS_FLASH, None}

ExcKinds ==
  {"ConnectionError", "PermissionDenied"}

SeqsUpTo(S, n) ==
  UNION {[1..k -> S] : k \in 0..n}

Remotes(ids) ==
  {Remote(x, NoExc, <<>>, NoExc) : x \in ExcKinds}
    \cup {Remote(NoExc, x, <<>>, NoExc) : x \in ExcKinds}
    \cup {Remote(NoExc, NoExc, items, it) :
            items \in SeqsUpTo(ids, MaxResp), it \in {NoExc, "ConnectionError"}}

\* an endpoint that answers with an empty listing
QuietRemote ==
  Remote(NoExc, NoExc, <<>>, NoExc)

\* importing program: one endpoint is mocked freely, the other is quiet
LibMocks ==
  {[gemini |-> r, openai |-> QuietRemote] : r \in Remotes(RawIds)}
    \cup {[gemini |-> QuietRemote, openai |-> r] : r \in Remotes(RawIds)}

\* script run: both endpoints are mocked independently
MainMocks ==
  [gemini : Remotes(MainRawIds), openai : Remotes(MainRawIds)]

NoCall ==
  Outcome("none", <<>>, "none", NoExc, NoExc, "none", <<>>, <<>>, <<>>, FALSE)

NoPrev ==
  [fn |-> "none", result |-> <<>>, raised |-> NoExc, touched |-> FALSE]

NoHeld ==
  [gemini |-> [obj |-> "none", list |-> <<>>],
   openai |-> [obj |-> "none", list |-> <<>>]]

ProviderOf(fn) ==
  IF fn = "get_gemini_models" THEN "gemini" ELSE "openai"

Init ==
  /\ env \in Envs
  /\ mock \in LibMocks
  /\ genai_api_key = None
  /\ ret = NoCall
  /\ prev = NoPrev
  /\ held = NoHeld
  /\ pc = "lib"
  /\ trace = <<>>

\* the state changes of one invocation with outcome c: the caller binds the
\* returned list; genai.configure has set the SDK's key if it was reached
Invoke(c) ==
  /\ ret' = c
  /\ prev' = IF ret.fn = "none" THEN NoPrev
             ELSE [fn |-> ret.fn, result |-> ret.result, raised |-> ret.raised,
                   touched |-> held[ProviderOf(ret.fn)].list /= ret.result]
  /\ held' = [held EXCEPT ![ProviderOf(c.fn)] = [obj |-> c.obj, list |-> c.result]]
  /\ genai_api_key' = IF c.configured THEN env.GEMINI_API_KEY ELSE genai_api_key

\* an importing program calls get_gemini_models()
CallGemini ==
  /\ pc = "lib"
  /\ \E c \in {get_gemini_models(env, mock.gemini)} :
       Invoke(c) /\ trace' = c.events
  /\ UNCHANGED <<env, mock, pc>>

\* an importing program calls get_openai_models()
CallOpenAI ==
  /\ pc = "lib"
  /\ \E c \in {get_openai_models(env, mock.openai)} :
       Invoke(c) /\ trace' = c.events
  /\ UNCHANGED <<env, mock, pc>>

\* the caller appends an item to the list it has just been handed
CallerMutates ==
  /\ pc = "lib"
  /\ ret.fn /= "none"
  /\ \E p \in {ProviderOf(ret.fn)} :
       /\ held[p].obj /= "none"
       /\ CALLER_ITEM \notin Range(held[p].list)
       /\ held' = [held EXCEPT ![p].list = Append(@, CALLER_ITEM)]
  /\ UNCHANGED <<env, mock, genai_api_key, ret, prev, pc, trace>>

\* one credential variable of the environment is set or unset; the
\* caller starts over
SetEnv ==
  /\ pc = "lib"
  /\ \E name \in {"GEMINI_API_KEY", "OPENAI_API_KEY"}, v \in KeyValues :
       /\ v /= env[name]
       /\ env' = [env EXCEPT ![name] = v]
  /\ ret' = NoCall
  /\ prev' = NoPrev
  /\ held' = NoHeld
  /\ trace' = <<>>
  /\ UNCHANGED <<mock, genai_api_key, pc>>

Next ==
  \/ CallGemini
  \/ CallOpenAI
  \/ CallerMutates
  \/ SetEnv

Spec ==
  Init /\ [][Next]_vars

-----------------------------------------------------------------------------
(* The script body, `if __name__ == "__main__":`                              *)

MainOrder_call_before_print ==
  <<"start", "gemini", "openai", "print_gemini", "print_openai", "done">>

\* the statements of the script body, in program order
MainOrder ==
  <<"start", "gemini", "print_gemini", "openai", "print_openai", "done">>

NextPc(p) ==
  MainOrder[(CHOOSE i \in 1..Len(MainOrder) : MainOrder[i] = p) + 1]

\* one printed line per entry of a list, then the total
PrintList(tag, list) ==
  [i \in 1..Len(list) |-> Ev("print", tag \o "_entry", i, list[i])]
    \o <<Ev("print", tag \o "_total", Len(list), <<>>)>>

MainInit ==
  /\ env \in Envs
  /\ mock \in MainMocks
  /\ genai_api_key = None
  /\ ret = NoCall
  /\ prev = NoPrev
  /\ held = NoHeld
  /\ pc = "start"
  /\ trace = <<>>

\* lines 111-117: banner, get_api_keys(), "... Key found." for each truthy key
MainKeys ==
  /\ pc = "start"
  /\ LET k == get_api_keys(env)
     IN  trace' = <<Printed("banner")>> \o k.events
                    \o (IF Truthy(k.keys[1]) THEN <<Printed("gemini_key_found")>> ELSE <<>>)
                    \o (IF Truthy(k.keys[2]) THEN <<Printed("openai_key_found")>> ELSE <<>>)
                    \o <<Printed("rule")>>
  /\ pc' = NextPc(pc)
  /\ UNCHANGED <<env, mock, genai_api_key, ret, prev, held>>

\* lines 119-120: header, gemini_models = get_gemini_models()
MainGeminiCall ==
  /\ pc = "gemini"
  /\ \E c \in {get_gemini_models(env, mock.gemini)} :
         /\ Invoke(c)
         /\ trace' = trace \o <<Printed("gemini_header")>> \o c.events
         /\ pc' = IF c.raised = NoExc THEN NextPc(pc) ELSE "aborted"
  /\ UNCHANGED <<env, mock>>

\* lines 121-123: one line per gemini model, then the total
MainGeminiPrint ==
  /\ pc = "print_gemini"
  /\ trace' = trace \o PrintList("gemini", held.gemini.list)
  /\ pc' = NextPc(pc)
  /\ UNCHANGED <<env, mock, genai_api_key, ret, prev, held>>

\* lines 125-126: header, openai_models = get_openai_models()
MainOpenAICall ==
  /\ pc = "openai"
  /\ \E c \in {get_openai_models(env, mock.openai)} :
         /\ Invoke(c)
         /\ trace' = trace \o <<Printed("openai_header")>> \o c.events
         /\ pc' = IF c.raised = NoExc THEN NextPc(pc) ELSE "aborted"
  /\ UNCHANGED <<env, mock>>

\* lines 127-129: one line per openai model, then the total
MainOpenAIPrint ==
  /\ pc = "print_openai"
  /\ trace' = trace \o PrintList("openai", held.openai.list)
  /\ pc' = NextPc(pc)
  /\ UNCHANGED <<env, mock, genai_api_key, ret, prev, held>>

MainNext ==
  \/ MainKeys
  \/ MainGeminiCall
  \/ MainGeminiPrint
  \/ MainOpenAICall
  \/ MainOpenAIPrint

\* the interpreter runs the script body statement by statement until it
\* ends: single-threaded, nothing else to schedule
MainSpec ==
  MainInit /\ [][MainNext]_vars /\ WF_vars(MainNext)

-----------------------------------------------------------------------------
(* Properties *)

Called ==
  ret.fn /= "none"

LiteralOf(fn) ==
  IF fn = "get_gemini_models" THEN DefaultGeminiLiteral ELSE DefaultOpenAILiteral

\* the credential the invocation recorded in ret read from the environment
KeyOf(fn) ==
  IF fn = "get_gemini_models" THEN env.GEMINI_API_KEY ELSE env.OPENAI_API_KEY

CredentialAbsent ==
  KeyOf(ret.fn) = None \/ KeyOf(ret.fn) = EMPTY

\* the endpoint the invocation recorded in ret talked to
EndpointOf(fn) ==
  mock[ProviderOf(fn)]

\* successful fetch: credential present and nothing raised in the try block
Success ==
  /\ Called
  /\ ~CredentialAbsent
  /\ ret.exc = NoExc
  /\ ret.raised = NoExc

NoDuplicates(s) ==
  \A i, j \in 1..Len(s) : i /= j => s[i] /= s[j]

Ascending(s) ==
  \A i \in 1..(Len(s) - 1) : ~StrLess(s[i + 1], s[i])

NRemote(evs) ==
  Cardinality({i \in 1..Len(evs) : evs[i].kind = "remote"})

\* C1: on a successful fetch the returned list has no duplicates, whatever
\* the remote response, also when two raw identifiers are equal or
\* normalize to the same string.
C1_NoDuplicates ==
  Success => NoDuplicates(ret.result)

\* C2: get_gemini_models and get_openai_models never let an exception
\* reach the caller: for every credential state and every outcome of the
\* remote call the invocation returns a list, which is the default list or
\* the merged list (sorted, made of the fetched and the default names).
C2_NeverRaises ==
  Called =>
    /\ ret.raised = NoExc
    /\ ret.obj \in {"default", "sorted"}
    /\ \/ ret.result = LiteralOf(ret.fn)
       \/ /\ Ascending(ret.result)
          /\ Range(ret.result) = Range(ret.fetched) \cup Range(LiteralOf(ret.fn))

C2_Witness ==
  /\ Called
  /\ ~CredentialAbsent
  /\ EndpointOf(ret.fn).cfg = "PermissionDenied"
  /\ ret.stage = "configure"
  /\ ret.raised = NoExc

\* C3: when an exception is raised anywhere between the client set-up and
\* the end of the merge (also after identifiers were read), the returned
\* list is the default list exactly, same content and same order.
C3_FallbackExact ==
  (/\ Called
   /\ ~CredentialAbsent
   /\ \/ EndpointOf(ret.fn).cfg /= NoExc
      \/ EndpointOf(ret.fn).list /= NoExc
      \/ EndpointOf(ret.fn).iter /= NoExc
      \/ ret.exc /= NoExc)
  => /\ ret.raised = NoExc
     /\ ret.result = LiteralOf(ret.fn)

C3_Witness ==
  /\ Called
  /\ ret.exc /= NoExc
  /\ \E i \in 1..Len(ret.names) : IsStr(ret.names[i])
  /\ ret.result = LiteralOf(ret.fn)

\* C4: with the credential missing the function returns exactly its
\* default list, not sorted and not merged, whatever the other provider's
\* credential is and whatever the endpoint would have returned.
C4_MissingCredential ==
  (Called /\ CredentialAbsent)
  => /\ ret.raised = NoExc
     /\ ret.result = LiteralOf(ret.fn)
     /\ ret.fetched = <<>>

C4_Witness ==
  /\ ret.fn = "get_gemini_models"
  /\ env.GEMINI_API_KEY = None
  /\ env.OPENAI_API_KEY = KEY_A
  /\ mock.gemini.items /= <<>>
  /\ mock.gemini.iter = NoExc
  /\ ret.result = DefaultGeminiLiteral

\* the fetched identifiers as the provider normalizes them
NormalizedFetched ==
  IF ret.fn = "get_gemini_models"
  THEN {split_last(x) : x \in Range(EndpointOf(ret.fn).items)}
  ELSE Range(EndpointOf(ret.fn).items)

\* C5: on a successful fetch the elements of the returned list are exactly
\* the normalized fetched identifiers together with the default
\* identifiers.
C5_UnionOfFetchedAndDefaults ==
  Success =>
    Range(ret.result) = NormalizedFetched \cup Range(LiteralOf(ret.fn))

C5_Witness ==
  /\ Success
  /\ \E x \in NormalizedFetched : x \notin Range(LiteralOf(ret.fn))
  /\ \E x \in NormalizedFetched : x \in Range(LiteralOf(ret.fn))
  /\ \E d \in Range(LiteralOf(ret.fn)) : d \notin NormalizedFetched

\* C6: on a successful fetch the returned list is ascending in
\* case-sensitive code point order, the appended defaults included: an
\* identifier starting with an upper-case letter precedes every default
\* identifier.
C6_SortedAscending ==
  Success =>
    /\ Ascending(ret.result)
    /\ RAW_GPT4_UPPER \in Range(ret.result) => ret.result[1] = RAW_GPT4_UPPER

C6_Witness ==
  /\ Success
  /\ ret.fn = "get_openai_models"
  /\ ret.fetched = <<RAW_DEEPSEEK, RAW_GPT4_UPPER>>
  /\ ret.result[1] = RAW_GPT4_UPPER
  /\ ret.names /= ret.result

IsSuffix(n, raw) ==
  /\ Len(n) <= Len(raw)
  /\ SubSeq(raw, Len(raw) - Len(n) + 1, Len(raw)) = n

\* C7: Gemini names are cut down to the part after the last '/' (a name
\* without '/' is unchanged, "models/gemini-2.0-flash" gives
\* "gemini-2.0-flash"); OpenAI identifiers are used as returned.
C7_Normalization ==
  (Called /\ ret.stage \in {"return", "sort"}) =>
    LET items == EndpointOf(ret.fn).items
    IN  /\ Len(ret.fetched) = Len(items)
        /\ ret.fn = "get_openai_models" => ret.fetched = items
        /\ ret.fn = "get_gemini_models" =>
             \A i \in 1..Len(items) :
               LET raw == items[i]
                   n   == ret.fetched[i]
               IN  /\ SLASH \notin Range(n)
                   /\ IsSuffix(n, raw)
                   /\ Len(n) = Len(raw) \/ raw[Len(raw) - Len(n)] = SLASH
                   /\ raw = RAW_MODELS_FLASH => n = NAME_FLASH
                   /\ raw = RAW_GPT4_UPPER => n = RAW_GPT4_UPPER

C7_Witness ==
  /\ ret.fn = "get_gemini_models"
  /\ ret.stage = "return"
  /\ EndpointOf(ret.fn).items = <<RAW_MODELS_FLASH, RAW_DEEPSEEK>>
  /\ ret.fetched = <<NAME_FLASH, NAME_DEEPSEEK_R1>>

\* two consecutive invocations of the same function, in the same
\* environment against the same endpoints, agree
SameAsBefore ==
  (Called /\ prev.fn = ret.fn) =>
    /\ prev.result = ret.result
    /\ prev.raised = ret.raised

TagsAt(tag) ==
  {i \in 1..Len(trace) : trace[i].tag = tag}

RemoteAt(p) ==
  {i \in 1..Len(trace) : trace[i].kind = "remote" /\ trace[i].tag = p}

\* every event of B comes after some event of A
Precedes(A, B) ==
  \A i \in B : \E j \in A : j < i

\* the printed entries of a provider, in print order
PrintedEntries(p) ==
  LET idx == TagsAt(p \o "_entry")
  IN  [k \in 1..Cardinality(idx) |->
         trace[CHOOSE i \in idx : Cardinality({j \in idx : j <= i}) = k].text]

PrintedInFull(p) ==
  /\ PrintedEntries(p) = held[p].list
  /\ \E i \in TagsAt(p \o "_total") :
       /\ trace[i].n = Len(held[p].list)
       /\ \A j \in TagsAt(p \o "_entry") : j < i

MainOrderly ==
  /\ pc /= "aborted"
  /\ Precedes(TagsAt("rule"), TagsAt("gemini_header"))
  /\ Precedes(TagsAt("banner"), TagsAt("rule"))
  /\ Precedes(TagsAt("gemini_header"), RemoteAt("gemini"))
  /\ Precedes(TagsAt("gemini_header"), TagsAt("gemini_entry"))
  /\ Precedes(TagsAt("gemini_total"), TagsAt("openai_header"))
  /\ Precedes(TagsAt("gemini_total"), RemoteAt("openai"))
  /\ Precedes(TagsAt("openai_header"), TagsAt("openai_entry"))
  /\ pc \in {"openai", "print_openai", "done"} => PrintedInFull("gemini")
  /\ pc = "done" => PrintedInFull("openai")

\* C9: run as a script, the credential report comes first, then the Gemini
\* listing runs and its list and total are printed, and only then does the
\* OpenAI listing start; the run always reaches its end, never aborted by
\* a provider failure.
C9_MainOrder ==
  [](MainOrderly) /\ <>(pc = "done")

C9_Witness ==
  /\ pc = "done"
  /\ RemoteAt("gemini") /= {}
  /\ RemoteAt("openai") /= {}
  /\ TagsAt("gemini_error") /= {}
  /\ TagsAt("openai_total") /= {}

\* C10: one invocation makes at most one remote listing call, and makes it
\* only with a credential that is a non-empty string; an unset credential
\* and an empty one both give no remote call and the default list.
C10_AtMostOneRemoteCall ==
  Called =>
    /\ NRemote(ret.events) <= 1
    /\ NRemote(ret.events) = 1 => KeyOf(ret.fn) \notin {None, EMPTY}
    /\ KeyOf(ret.fn) \in {None, EMPTY} =>
         /\ NRemote(ret.events) = 0
         /\ ~ret.configured
         /\ ret.result = LiteralOf(ret.fn)

C10_Witness ==
  /\ Called
  /\ KeyOf(ret.fn) = EMPTY
  /\ EndpointOf(ret.fn).items /= <<>>
  /\ NRemote(ret.events) = 0

====
